---------------------------- MODULE Spec2Model ----------------------------
(***************************************************************************)
(* A model of WMML.py: the resolution-and-assembly pipeline of the         *)
(* launcher (library rules, library paths, classpath, game arguments,      *)
(* java command) and the launch orchestration with its two output readers. *)
(*                                                                         *)
(* A Python str is a sequence of atoms.  An atom is one character or one   *)
(* opaque run of characters that holds none of the characters the          *)
(* operations applied to it look for (':', '.', ' ', the separators, "${", *)
(* "}").  A Python dict is a function whose DOMAIN is its key set, so      *)
(* `'k' in d` is "k" \in DOMAIN d.                                         *)
(***************************************************************************)
EXTENDS Integers, Sequences, FiniteSets, TLC

VARIABLES
    pc,            \* position of the call under study
    machine64,     \* platform.machine().endswith('64')
    files,         \* the paths for which Path.exists() is true
    lib,           \* the library object passed to the rule evaluator / resolver
    version_json,  \* the parsed version descriptor
    version_name,  \* launch parameter
    player_name,   \* launch parameter
    options,       \* launch options dict
    libraries,     \* classpath string passed to build_java_command
    game_args,     \* game-argument string passed to build_java_command
    args,          \* build_game_arguments' local list `args` before the join
    ret,           \* the value the call returned
    raised,        \* whether an exception left the call
    printed,       \* whether the call printed a diagnostic
    stream,        \* per output stream: lines the child wrote and not yet read
    closed,        \* per output stream: the child closed its end
    written,       \* per output stream: every line the child ever wrote
    reader,        \* per output stream: state of its reader thread
    log,           \* per reader: what it printed, in print order
    java_command,  \* launch_minecraft's local java_command
    process        \* the Popen object

vars == <<pc, machine64, files, lib, version_json, version_name, player_name,
          options, libraries, game_args, args, ret, raised, printed,
          stream, closed, written, reader, log, java_command, process>>

\* A value for the variables a specification does not use.
Unused == "unused"

(***************************************************************************)
(* Python str and list operations                                          *)
(***************************************************************************)

RECURSIVE Join(_, _)
\* sep.join(parts)
Join(parts, sep) ==
    IF parts = <<>> THEN <<>>
    ELSE IF Len(parts) = 1 THEN parts[1]
    ELSE parts[1] \o sep \o Join(Tail(parts), sep)

RECURSIVE SplitFrom(_, _, _)
\* The parts of s.split(c) with `cur` the part collected so far.
SplitFrom(s, c, cur) ==
    IF s = <<>> THEN <<cur>>
    ELSE IF Head(s) = c THEN <<cur>> \o SplitFrom(Tail(s), c, <<>>)
    ELSE SplitFrom(Tail(s), c, Append(cur, Head(s)))

\* s.split(c) for a one-character separator: never an empty list, empty
\* parts are kept.
Split(s, c) == SplitFrom(s, c, <<>>)

\* s.startswith(p)
StartsWith(s, p) == Len(s) >= Len(p) /\ SubSeq(s, 1, Len(p)) = p

RECURSIVE Replace(_, _, _)
\* s.replace(old, new): left to right, occurrences do not overlap.
Replace(s, old, new) ==
    IF Len(s) < Len(old) THEN s
    ELSE IF StartsWith(s, old)
         THEN new \o Replace(SubSeq(s, Len(old) + 1, Len(s)), old, new)
         ELSE <<Head(s)>> \o Replace(Tail(s), old, new)

\* The characters str.strip() and str.split() take for whitespace.
Whitespace == {" ", "\t"}

RECURSIVE LStrip(_)
LStrip(s) == IF s # <<>> /\ Head(s) \in Whitespace THEN LStrip(Tail(s)) ELSE s

RECURSIVE RStrip(_)
RStrip(s) ==
    IF s # <<>> /\ s[Len(s)] \in Whitespace THEN RStrip(SubSeq(s, 1, Len(s) - 1))
    ELSE s

\* s.strip()
Strip(s) == RStrip(LStrip(s))

Digit(d) == <<"0", "1", "2", "3", "4", "5", "6", "7", "8", "9">>[d + 1]

RECURSIVE IntToStr(_)
\* str(n) for a natural number, as f'{memory}' formats it.
IntToStr(n) == IF n < 10 THEN <<Digit(n)>> ELSE IntToStr(n \div 10) \o <<Digit(n % 10)>>

(***************************************************************************)
(* Paths                                                                   *)
(***************************************************************************)

os_sep == "/"
os_pathsep == ";"

\* pathlib drops empty and '.' segments of what is joined.
PathSegments(s) == SelectSeq(Split(s, os_sep), LAMBDA seg : seg # <<>> /\ seg # <<".">>)

\* str(p / c) for a relative c
PathJoin(p, c) ==
    LET segs == PathSegments(c)
    IN  IF segs = <<>> THEN p ELSE p \o <<os_sep>> \o Join(segs, <<os_sep>>)

\* The installation root the calls are given.
mc_path == <<".minecraft">>

(***************************************************************************)
(* check_library_rules                                                     *)
(***************************************************************************)

os_name == "windows"

os_arch == IF machine64 THEN "x86_64" ELSE "x86"

\* One pass of the loop body with a rule that is deaf to the OS of a
\* disallow rule: every disallow rule clears the decision.
rule_step_disallow_any(should_include, rule) ==
    IF rule.action = "allow"
    THEN IF "os" \notin DOMAIN rule THEN TRUE
         ELSE IF rule.os.name = os_name
              THEN IF "arch" \in DOMAIN rule.os THEN rule.os.arch = os_arch ELSE TRUE
              ELSE FALSE
    ELSE FALSE

\* One pass of the loop body in which an allow rule can only raise the
\* decision (first-allow-wins instead of last-rule-wins).
rule_step_allow_sticky(should_include, rule) ==
    IF rule.action = "allow"
    THEN IF "os" \notin DOMAIN rule THEN TRUE
         ELSE IF rule.os.name = os_name
              THEN IF "arch" \in DOMAIN rule.os
                   THEN should_include \/ rule.os.arch = os_arch
                   ELSE TRUE
              ELSE should_include
    ELSE IF rule.action = "disallow"
    THEN IF "os" \notin DOMAIN rule THEN FALSE
         ELSE IF rule.os.name = os_name THEN FALSE ELSE should_include
    ELSE should_include

\* One pass of the loop body of check_library_rules: the new should_include.
rule_step(should_include, rule) ==
    IF rule.action = "allow"
    THEN IF "os" \notin DOMAIN rule THEN TRUE
         ELSE IF rule.os.name = os_name
              THEN IF "arch" \in DOMAIN rule.os THEN rule.os.arch = os_arch ELSE TRUE
              ELSE FALSE
    ELSE IF rule.action = "disallow"
    THEN IF "os" \notin DOMAIN rule THEN FALSE
         ELSE IF rule.os.name = os_name THEN FALSE ELSE should_include
    ELSE should_include

RECURSIVE rules_loop(_, _)
\* for rule in lib['rules'], from should_include
rules_loop(should_include, rules) ==
    IF rules = <<>> THEN should_include
    ELSE rules_loop(rule_step(should_include, Head(rules)), Tail(rules))

check_library_rules(l) ==
    IF "rules" \notin DOMAIN l \/ l.rules = <<>> THEN TRUE
    ELSE rules_loop(TRUE, l.rules)

(***************************************************************************)
(* Inputs of the rule evaluator                                            *)
(***************************************************************************)

MaxRules == 2

OsNames == {"windows", "osx"}
Archs == {"x86_64", "x86"}
OsConstraints ==
    {[name |-> n] : n \in OsNames} \cup {[name |-> n, arch |-> a] : n \in OsNames, a \in Archs}
Rules ==
    {[action |-> a] : a \in {"allow", "disallow"}}
    \cup {[action |-> a, os |-> o] : a \in {"allow", "disallow"}, o \in OsConstraints}

SeqsUpTo(S, n) == UNION {[1..k -> S] : k \in 0..n}

NameFoo == <<"org", ".", "example", ":", "foo", ":", "1", ".", "0">>

RuleLibs ==
    {[name |-> NameFoo]} \cup {[name |-> NameFoo, rules |-> r] : r \in SeqsUpTo(Rules, MaxRules)}

IdleStreams ==
    /\ stream = Unused /\ closed = Unused /\ written = Unused
    /\ reader = Unused /\ log = Unused
    /\ java_command = Unused /\ process = Unused

InitRules ==
    /\ pc = "call"
    /\ machine64 \in BOOLEAN
    /\ lib \in RuleLibs
    /\ files = {} /\ version_json = Unused /\ version_name = Unused
    /\ player_name = Unused /\ options = Unused /\ libraries = Unused
    /\ game_args = Unused /\ args = Unused
    /\ ret = Unused /\ raised = FALSE /\ printed = FALSE
    /\ IdleStreams

Call_check_library_rules ==
    /\ pc = "call"
    /\ pc' = "done"
    /\ ret' = check_library_rules(lib)
    /\ UNCHANGED <<machine64, files, lib, version_json, version_name, player_name,
                   options, libraries, game_args, args, raised, printed,
                   stream, closed, written, reader, log, java_command, process>>

NextRules == Call_check_library_rules

SpecRules == InitRules /\ [][NextRules]_vars

(***************************************************************************)
(* C2, C3                                                                  *)
(***************************************************************************)

HasRules == "rules" \in DOMAIN lib /\ lib.rules # <<>>

IsDisallowOther(rule) ==
    rule.action = "disallow" /\ "os" \in DOMAIN rule /\ rule.os.name # os_name

\* What a rule sets the decision to, for the rules that set it.
RuleValue(rule) ==
    IF rule.action = "disallow" THEN FALSE
    ELSE IF "os" \notin DOMAIN rule THEN TRUE
    ELSE IF rule.os.name # os_name THEN FALSE
    ELSE IF "arch" \in DOMAIN rule.os THEN rule.os.arch = os_arch
    ELSE TRUE

Assigning(rules) == {i \in 1..Len(rules) : ~IsDisallowOther(rules[i])}

LastAssigned(rules) ==
    IF Assigning(rules) = {} THEN TRUE
    ELSE RuleValue(rules[CHOOSE i \in Assigning(rules) : \A j \in Assigning(rules) : j <= i])

\* C2: an entry without rules is included; otherwise the decision is that of
\* the last rule that sets it (TRUE when none does): allow without OS gives
\* TRUE, disallow without OS or for the current OS FALSE, allow for the
\* current OS TRUE or (arch = current arch), allow for another OS FALSE; and
\* [allow(no-os), disallow(os=current)] gives FALSE.
C2_LastRuleWins ==
    pc = "done" =>
        /\ ~HasRules => ret = TRUE
        /\ HasRules => ret = LastAssigned(lib.rules)
        /\ (HasRules /\ ~IsDisallowOther(lib.rules[Len(lib.rules)]))
              => ret = RuleValue(lib.rules[Len(lib.rules)])
        /\ (HasRules /\ lib.rules = <<[action |-> "allow"],
                                      [action |-> "disallow", os |-> [name |-> os_name]]>>)
              => ret = FALSE

C2_Witness ==
    /\ pc = "done"
    /\ HasRules
    /\ Len(lib.rules) = 2
    /\ lib.rules[1] = [action |-> "allow"]
    /\ lib.rules[2] = [action |-> "disallow", os |-> [name |-> os_name]]
    /\ ret = FALSE

InsertAt(s, p, e) == SubSeq(s, 1, p) \o <<e>> \o SubSeq(s, p + 1, Len(s))

DisallowOthers == {r \in Rules : IsDisallowOther(r)}

\* C3: a disallow rule for another OS leaves the decision as it was:
\* inserting one anywhere in the rule list gives the same result, and alone
\* it gives TRUE.
C3_DisallowOtherPassThrough ==
    pc = "done" =>
        /\ (HasRules /\ Len(lib.rules) = 1 /\ IsDisallowOther(lib.rules[1])) => ret = TRUE
        /\ "rules" \in DOMAIN lib =>
              \A p \in 0..Len(lib.rules) : \A d \in DisallowOthers :
                  check_library_rules([lib EXCEPT !.rules = InsertAt(lib.rules, p, d)]) = ret

C3_Witness ==
    /\ pc = "done"
    /\ HasRules
    /\ Len(lib.rules) = 2
    /\ lib.rules[1] = [action |-> "disallow"]
    /\ IsDisallowOther(lib.rules[2])
    /\ ret = FALSE

(***************************************************************************)
(* get_library_path                                                        *)
(***************************************************************************)

\* Optional[str]
None == [some |-> FALSE]
Some(p) == [some |-> TRUE, path |-> p]

ArchPlaceholder == <<"${", "arch", "}">>

arch_token == IF machine64 THEN <<"64">> ELSE <<"32">>

\* base_path of a library whose name split into `parts`
base_path(parts) ==
    PathJoin(PathJoin(PathJoin(PathJoin(mc_path, <<"libraries">>),
                               Replace(parts[1], <<".">>, <<os_sep>>)),
                      parts[2]),
             parts[3])

\* base_file of a library whose name split into `parts`
base_file(parts) == parts[2] \o <<"-">> \o parts[3]

\* native_path, for a library that declares natives for windows
native_path(l, parts) ==
    PathJoin(base_path(parts),
             base_file(parts) \o <<"-">>
                 \o Replace(l.natives.windows, ArchPlaceholder, arch_token)
                 \o <<".jar">>)

jar_path(parts) == PathJoin(base_path(parts), base_file(parts) \o <<".jar">>)

\* The resolver without the existence test of the native jar.
resolve_parts_native_unchecked(l, parts) ==
    IF "natives" \in DOMAIN l /\ "windows" \in DOMAIN l.natives
    THEN Some(native_path(l, parts))
    ELSE IF jar_path(parts) \in files THEN Some(jar_path(parts))
    ELSE None

\* The body of the try block after the split, when parts[0..2] exist.
resolve_parts(l, parts) ==
    IF "natives" \in DOMAIN l /\ "windows" \in DOMAIN l.natives
          /\ native_path(l, parts) \in files
    THEN Some(native_path(l, parts))
    ELSE IF jar_path(parts) \in files THEN Some(jar_path(parts))
    ELSE None

\* get_library_path: the value returned and whether the except branch ran.
\* parts[1] or parts[2] of a shorter list raises IndexError, which the
\* except branch catches: it prints and returns None.  No exception leaves
\* the function.
get_library_path(l) ==
    LET parts == Split(l.name, ":")
    IN  IF Len(parts) < 3
        THEN [value |-> None, printed |-> TRUE]
        ELSE [value |-> resolve_parts(l, parts), printed |-> FALSE]

(***************************************************************************)
(* Inputs of the resolver                                                  *)
(***************************************************************************)

NameBrigadier == <<"com", ".", "mojang", ":", "brigadier", ":", "1">>
NameTwoParts == <<"org", ".", "example", ":", "foo">>
NameFourParts == NameFoo \o <<":", "natives">>
NameOnePart == <<"foo">>

LibNames == {NameFoo, NameBrigadier, NameTwoParts, NameFourParts, NameOnePart}

NativesDicts ==
    { [windows |-> <<"natives-windows">>],
      [windows |-> <<"natives-windows-">> \o ArchPlaceholder],
      [linux |-> <<"natives-linux">>] }

PathLibs ==
    {[name |-> n] : n \in LibNames}
    \cup {[name |-> n, natives |-> d] : n \in LibNames, d \in NativesDicts}

FooDir == <<".minecraft", "/", "libraries", "/", "org", "/", "example", "/", "foo",
            "/", "1", ".", "0", "/">>
FooJar == FooDir \o <<"foo", "-", "1", ".", "0", ".jar">>
FooNativeJar == FooDir \o <<"foo", "-", "1", ".", "0", "-", "natives-windows", ".jar">>
FooNative64Jar == FooDir \o <<"foo", "-", "1", ".", "0", "-", "natives-windows-", "64", ".jar">>
FooNative32Jar == FooDir \o <<"foo", "-", "1", ".", "0", "-", "natives-windows-", "32", ".jar">>
BrigadierJar ==
    <<".minecraft", "/", "libraries", "/", "com", "/", "mojang", "/", "brigadier",
      "/", "1", "/", "brigadier", "-", "1", ".jar">>

PathFiles == {FooJar, FooNativeJar, FooNative64Jar, FooNative32Jar, BrigadierJar}

InitPath ==
    /\ pc = "call"
    /\ machine64 \in BOOLEAN
    /\ lib \in PathLibs
    /\ files \in SUBSET PathFiles
    /\ version_json = Unused /\ version_name = Unused
    /\ player_name = Unused /\ options = Unused /\ libraries = Unused
    /\ game_args = Unused /\ args = Unused
    /\ ret = Unused /\ raised = FALSE /\ printed = FALSE
    /\ IdleStreams

Call_get_library_path ==
    /\ pc = "call"
    /\ pc' = "done"
    /\ ret' = get_library_path(lib).value
    /\ printed' = get_library_path(lib).printed
    /\ raised' = FALSE
    /\ UNCHANGED <<machine64, files, lib, version_json, version_name, player_name,
                   options, libraries, game_args, args,
                   stream, closed, written, reader, log, java_command, process>>

NextPath == Call_get_library_path

SpecPath == InitPath /\ [][NextPath]_vars

(***************************************************************************)
(* C1, C4                                                                  *)
(***************************************************************************)

Coordinate == Split(lib.name, ":")

\* C1: a library whose coordinate does not split into exactly three parts
\* makes get_library_path signal an error to its caller; it does not
\* return None for it.
C1_MalformedSurfaced ==
    (pc = "done" /\ Len(Coordinate) # 3) => (raised /\ ret # None)

DeclaresNative == "natives" \in DOMAIN lib /\ "windows" \in DOMAIN lib.natives

ExpectedBase ==
    mc_path \o <<"/", "libraries", "/">> \o Replace(Coordinate[1], <<".">>, <<"/">>)
        \o <<"/">> \o Coordinate[2] \o <<"/">> \o Coordinate[3] \o <<"/">>
        \o Coordinate[2] \o <<"-">> \o Coordinate[3]

ExpectedPlain == ExpectedBase \o <<".jar">>

ExpectedNative ==
    ExpectedBase \o <<"-">>
        \o Replace(lib.natives.windows, ArchPlaceholder, IF machine64 THEN <<"64">> ELSE <<"32">>)
        \o <<".jar">>

\* C4: for a coordinate of three parts the resolver returns the native jar
\* when one is declared for windows and exists, else the plain jar when it
\* exists, else None; what it returns exists, and it is never the plain jar
\* when the declared native jar exists.
C4_ResolvePath ==
    (pc = "done" /\ Len(Coordinate) = 3) =>
        /\ ~raised /\ ~printed
        /\ ret = IF DeclaresNative /\ ExpectedNative \in files THEN Some(ExpectedNative)
                 ELSE IF ExpectedPlain \in files THEN Some(ExpectedPlain)
                 ELSE None
        /\ ret.some => ret.path \in files
        /\ (lib = [name |-> NameFoo] /\ FooJar \in files) => ret = Some(FooJar)
        /\ (lib = [name |-> NameFoo] /\ FooJar \notin files) => ret = None

C4_Witness ==
    /\ pc = "done"
    /\ lib.name = NameFoo
    /\ DeclaresNative
    /\ machine64
    /\ {FooJar, FooNative64Jar} \subseteq files
    /\ ret = Some(FooNative64Jar)

(***************************************************************************)
(* build_libraries_path                                                    *)
(***************************************************************************)

\* str(mc_path / 'versions' / version_json['id'] / f"{version_json['id']}.jar")
version_jar(vj) ==
    PathJoin(PathJoin(PathJoin(mc_path, <<"versions">>), vj.id), vj.id \o <<".jar">>)

RECURSIVE libraries_loop_dedup(_, _)
\* The loop with a classpath that holds each path once.
libraries_loop_dedup(result, libs) ==
    IF libs = <<>> THEN result
    ELSE LET l == Head(libs)
             lib_path == get_library_path(l).value
         IN  IF ~check_library_rules(l) THEN libraries_loop_dedup(result, Tail(libs))
             ELSE IF lib_path.some /\ \A i \in 1..Len(result) : result[i] # lib_path.path
                  THEN libraries_loop_dedup(Append(result, lib_path.path), Tail(libs))
                  ELSE libraries_loop_dedup(result, Tail(libs))

RECURSIVE libraries_loop(_, _)
\* for lib in version_json['libraries'], from the list `result`
libraries_loop(result, libs) ==
    IF libs = <<>> THEN result
    ELSE LET l == Head(libs)
             lib_path == get_library_path(l).value
         IN  IF ~check_library_rules(l) THEN libraries_loop(result, Tail(libs))
             ELSE IF lib_path.some
                  THEN libraries_loop(Append(result, lib_path.path), Tail(libs))
                  ELSE libraries_loop(result, Tail(libs))

\* A 'libraries' value, when the key is present, is a list here, so the
\* isinstance test is true of it.
build_libraries_path(vj) ==
    LET result == <<version_jar(vj)>>
    IN  IF "libraries" \in DOMAIN vj
        THEN Join(libraries_loop(result, vj.libraries), <<os_pathsep>>)
        ELSE Join(result, <<os_pathsep>>)

(***************************************************************************)
(* Inputs of the classpath builder                                         *)
(***************************************************************************)

MaxLibs == 2

VersionId == <<"1", ".", "20", ".", "1">>

ClasspathLibs ==
    { [name |-> NameFoo],
      [name |-> NameFoo, natives |-> [windows |-> <<"natives-windows-">> \o ArchPlaceholder]],
      [name |-> NameBrigadier],
      [name |-> NameBrigadier,
       rules |-> <<[action |-> "allow"], [action |-> "disallow", os |-> [name |-> "windows"]]>>],
      [name |-> NameFoo,
       rules |-> <<[action |-> "allow", os |-> [name |-> "windows", arch |-> "x86_64"]]>>],
      [name |-> NameTwoParts] }

VersionJarFile ==
    <<".minecraft", "/", "versions", "/", "1", ".", "20", ".", "1", "/",
      "1", ".", "20", ".", "1", ".jar">>

ClasspathFiles == {FooJar, FooNative64Jar, BrigadierJar, VersionJarFile}

Descriptors ==
    {[id |-> VersionId]}
    \cup {[id |-> VersionId, libraries |-> ls] : ls \in SeqsUpTo(ClasspathLibs, MaxLibs)}

InitClasspath ==
    /\ pc = "call"
    /\ machine64 \in BOOLEAN
    /\ version_json \in Descriptors
    /\ files \in SUBSET ClasspathFiles
    /\ lib = Unused /\ version_name = Unused
    /\ player_name = Unused /\ options = Unused /\ libraries = Unused
    /\ game_args = Unused /\ args = Unused
    /\ ret = Unused /\ raised = FALSE /\ printed = FALSE
    /\ IdleStreams

Call_build_libraries_path ==
    /\ pc = "call"
    /\ pc' = "done"
    /\ ret' = build_libraries_path(version_json)
    /\ printed' = ("libraries" \in DOMAIN version_json
                     /\ \E i \in 1..Len(version_json.libraries) :
                           /\ check_library_rules(version_json.libraries[i])
                           /\ get_library_path(version_json.libraries[i]).printed)
    /\ raised' = FALSE
    /\ UNCHANGED <<machine64, files, lib, version_json, version_name, player_name,
                   options, libraries, game_args, args,
                   stream, closed, written, reader, log, java_command, process>>

NextClasspath == Call_build_libraries_path

SpecClasspath == InitClasspath /\ [][NextClasspath]_vars

(***************************************************************************)
(* C5                                                                      *)
(***************************************************************************)

DescriptorLibs == IF "libraries" \in DOMAIN version_json THEN version_json.libraries ELSE <<>>

\* The positions of the libraries that are accepted and resolved, ascending.
Contributing ==
    SelectSeq([i \in 1..Len(DescriptorLibs) |-> i],
              LAMBDA i : /\ check_library_rules(DescriptorLibs[i])
                         /\ get_library_path(DescriptorLibs[i]).value.some)

ExpectedVersionJar ==
    <<".minecraft", "/", "versions", "/">> \o version_json.id \o <<"/">>
        \o version_json.id \o <<".jar">>

\* C5: the classpath is the version's jar (never tested for existence),
\* then the resolved path of every accepted and resolved library, in
\* descriptor order, duplicates kept.
C5_ClasspathOrder ==
    pc = "done" =>
        /\ ~raised
        /\ Split(ret, os_pathsep) =
              <<ExpectedVersionJar>>
                  \o [j \in 1..Len(Contributing) |->
                         get_library_path(DescriptorLibs[Contributing[j]]).value.path]
        /\ Split(ret, os_pathsep)[1] = VersionJarFile

C5_Witness ==
    /\ pc = "done"
    /\ VersionJarFile \notin files
    /\ Len(DescriptorLibs) = 2
    /\ DescriptorLibs[1] = DescriptorLibs[2]
    /\ Len(Contributing) = 2
    /\ Len(Split(ret, os_pathsep)) = 3

(***************************************************************************)
(* build_game_arguments                                                    *)
(***************************************************************************)

\* The placeholder ${n}
PH(n) == <<"${", n, "}">>

\* An element of arguments.game is a JSON string or a JSON object.
StrArg(s) == [str |-> s]
IsStr(arg) == "str" \in DOMAIN arg

RECURSIVE game_loop_unfiltered(_, _)
\* The loop without the isinstance test: an object contributes its value.
game_loop_unfiltered(collected, game) ==
    IF game = <<>> THEN collected
    ELSE game_loop_unfiltered(
             Append(collected, IF IsStr(Head(game)) THEN Head(game).str ELSE Head(game).value),
             Tail(game))

RECURSIVE game_loop(_, _)
\* for arg in version_json['arguments']['game'], from the list `collected`
game_loop(collected, game) ==
    IF game = <<>> THEN collected
    ELSE IF IsStr(Head(game)) THEN game_loop(Append(collected, Head(game).str), Tail(game))
    ELSE game_loop(collected, Tail(game))

\* The list `args` when the join is reached.
collect_args(vj) ==
    LET legacy == IF "minecraftArguments" \in DOMAIN vj
                  THEN Split(vj.minecraftArguments, " ")
                  ELSE <<>>
    IN  IF "arguments" \in DOMAIN vj /\ "game" \in DOMAIN vj.arguments
        THEN game_loop(legacy, vj.arguments.game)
        ELSE legacy

\* The dict `replacements`, with the version name replaced before the
\* player name.
replacements_reordered(vn, pn, vj) ==
    << <<PH("version_name"), vn>>,
       <<PH("auth_player_name"), pn>>,
       <<PH("game_directory"), mc_path>>,
       <<PH("assets_root"), PathJoin(mc_path, <<"assets">>)>>,
       <<PH("assets_index_name"), IF "assets" \in DOMAIN vj THEN vj.assets ELSE <<>> >>,
       <<PH("auth_uuid"), <<"00000000-0000-0000-0000-000000000000">> >>,
       <<PH("auth_access_token"), <<"00000000000000000000000000000000">> >>,
       <<PH("user_type"), <<"legacy">> >>,
       <<PH("version_type"), <<"\"WMML", " ", "0.1.26\"">> >> >>

\* The dict `replacements`, in insertion order, which is the order
\* replacements.items() yields.
replacements(vn, pn, vj) ==
    << <<PH("auth_player_name"), pn>>,
       <<PH("version_name"), vn>>,
       <<PH("game_directory"), mc_path>>,
       <<PH("assets_root"), PathJoin(mc_path, <<"assets">>)>>,
       <<PH("assets_index_name"), IF "assets" \in DOMAIN vj THEN vj.assets ELSE <<>> >>,
       <<PH("auth_uuid"), <<"00000000-0000-0000-0000-000000000000">> >>,
       <<PH("auth_access_token"), <<"00000000000000000000000000000000">> >>,
       <<PH("user_type"), <<"legacy">> >>,
       <<PH("version_type"), <<"\"WMML", " ", "0.1.26\"">> >> >>

RECURSIVE replace_loop(_, _)
\* for placeholder, value in replacements.items()
replace_loop(args_str, items) ==
    IF items = <<>> THEN args_str
    ELSE replace_loop(Replace(args_str, Head(items)[1], Head(items)[2]), Tail(items))

build_game_arguments(vn, pn, vj) ==
    Strip(replace_loop(Join(collect_args(vj), <<" ">>), replacements(vn, pn, vj)))

(***************************************************************************)
(* Inputs of the argument templater                                        *)
(***************************************************************************)

MaxPieces == 2

Pieces ==
    { PH("auth_player_name"), PH("version_name"), PH("user_type"), PH("foo"),
      <<" ">>, <<"\t">>, <<"--username">>, <<"}">> }

RECURSIVE Concat(_)
Concat(ss) == IF ss = <<>> THEN <<>> ELSE Head(ss) \o Concat(Tail(ss))

AliceTemplate ==
    <<"--username", " ">> \o PH("auth_player_name") \o <<" ", "--uuid", " ">> \o PH("auth_uuid")

AllPlaceholdersTemplate ==
    PH("game_directory") \o <<" ">> \o PH("assets_root") \o <<" ">>
        \o PH("assets_index_name") \o <<" ">> \o PH("auth_access_token") \o <<" ">>
        \o PH("version_type") \o <<" ">> \o PH("auth_uuid") \o <<" ">> \o PH("user_type")
        \o <<" ">> \o PH("version_name") \o <<" ">> \o PH("auth_player_name")

Templates ==
    {Concat(ps) : ps \in SeqsUpTo(Pieces, MaxPieces)}
        \cup {AliceTemplate, AllPlaceholdersTemplate}

ObjectArg ==
    [rules |-> <<[action |-> "allow", features |-> [is_demo_user |-> TRUE]]>>,
     value |-> <<"--demo">>]

GameLists ==
    { <<>>,
      <<ObjectArg>>,
      <<StrArg(<<"--version">>), StrArg(PH("version_name")), ObjectArg,
        StrArg(<<"--user", " ", "name">>), StrArg(PH("auth_player_name"))>> }

ArgumentsDicts == {[jvm |-> <<>>]} \cup {[game |-> g] : g \in GameLists}

PlayerNames == {<<"Alice">>, <<"Player123">>, PH("version_name"), <<"${", "user_type">>}

VersionNames == {VersionId, PH("auth_player_name")}

ArgDescriptors ==
    LET base == {[id |-> VersionId], [id |-> VersionId, assets |-> <<"5">>]}
        withLegacy == base \cup
            {[k \in DOMAIN d \cup {"minecraftArguments"} |->
                 IF k = "minecraftArguments" THEN t ELSE d[k]] : d \in base, t \in Templates}
    IN  withLegacy \cup
            {[k \in DOMAIN d \cup {"arguments"} |->
                 IF k = "arguments" THEN a ELSE d[k]] : d \in withLegacy, a \in ArgumentsDicts}

InitArgs ==
    /\ pc = "call"
    /\ version_json \in ArgDescriptors
    /\ version_name \in VersionNames
    /\ player_name \in PlayerNames
    /\ machine64 = TRUE /\ files = {} /\ lib = Unused
    /\ options = Unused /\ libraries = Unused
    /\ game_args = Unused /\ args = Unused
    /\ ret = Unused /\ raised = FALSE /\ printed = FALSE
    /\ IdleStreams

Call_build_game_arguments ==
    /\ pc = "call"
    /\ pc' = "done"
    /\ args' = collect_args(version_json)
    /\ ret' = build_game_arguments(version_name, player_name, version_json)
    /\ UNCHANGED <<machine64, files, lib, version_json, version_name, player_name,
                   options, libraries, game_args, raised, printed,
                   stream, closed, written, reader, log, java_command, process>>

NextArgs == Call_build_game_arguments

SpecArgs == InitArgs /\ [][NextArgs]_vars

(***************************************************************************)
(* C6, C7                                                                  *)
(***************************************************************************)

Contains(s, sub) ==
    \E i \in 1..(Len(s) - Len(sub) + 1) : SubSeq(s, i, i + Len(sub) - 1) = sub

HasLegacy == "minecraftArguments" \in DOMAIN version_json
HasModern == "arguments" \in DOMAIN version_json /\ "game" \in DOMAIN version_json.arguments

AssetsIndex == IF "assets" \in DOMAIN version_json THEN version_json.assets ELSE <<>>

\* The nine substitutions over the joined tokens, in the listed order, then
\* the trim.
ExpectedGameArguments ==
    LET s0 == Join(args, <<" ">>)
        s1 == Replace(s0, <<"${", "auth_player_name", "}">>, player_name)
        s2 == Replace(s1, <<"${", "version_name", "}">>, version_name)
        s3 == Replace(s2, <<"${", "game_directory", "}">>, <<".minecraft">>)
        s4 == Replace(s3, <<"${", "assets_root", "}">>, <<".minecraft", "/", "assets">>)
        s5 == Replace(s4, <<"${", "assets_index_name", "}">>, AssetsIndex)
        s6 == Replace(s5, <<"${", "auth_uuid", "}">>, <<"00000000-0000-0000-0000-000000000000">>)
        s7 == Replace(s6, <<"${", "auth_access_token", "}">>, <<"00000000000000000000000000000000">>)
        s8 == Replace(s7, <<"${", "user_type", "}">>, <<"legacy">>)
        s9 == Replace(s8, <<"${", "version_type", "}">>, <<"\"WMML", " ", "0.1.26\"">>)
    IN  Strip(s9)

\* C6: the result is the space-joined tokens with the nine placeholders
\* substituted one after the other in the listed order, trimmed; a
\* placeholder outside the set stays as it is; the template
\* `--username ${auth_player_name} --uuid ${auth_uuid}` with player Alice
\* gives `--username Alice --uuid 00000000-0000-0000-0000-000000000000`.
C6_Substitution ==
    pc = "done" =>
        /\ ret = ExpectedGameArguments
        /\ (ret = <<>> \/ (ret[1] \notin Whitespace /\ ret[Len(ret)] \notin Whitespace))
        /\ Contains(Join(args, <<" ">>), PH("foo")) => Contains(ret, PH("foo"))
        /\ (args = Split(AliceTemplate, " ") /\ player_name = <<"Alice">>)
              => ret = <<"--username", " ", "Alice", " ", "--uuid", " ",
                         "00000000-0000-0000-0000-000000000000">>

C6_Witness ==
    /\ pc = "done"
    /\ HasLegacy
    /\ version_json.minecraftArguments = AliceTemplate
    /\ ~HasModern
    /\ player_name = <<"Alice">>
    /\ ret = <<"--username", " ", "Alice", " ", "--uuid", " ",
               "00000000-0000-0000-0000-000000000000">>

\* The string elements of the modern list, in list order.
ModernStrings ==
    IF HasModern
    THEN LET strs == SelectSeq(version_json.arguments.game, IsStr)
         IN  [i \in 1..Len(strs) |-> strs[i].str]
    ELSE <<>>

\* C7: the collected tokens are the single-space-split tokens of the legacy
\* string (when present) followed by the string elements of the modern list
\* in order; object elements contribute nothing, not even their values; a
\* descriptor with neither field gives the empty string.
C7_CollectedTokens ==
    pc = "done" =>
        LET k == Len(args) - Len(ModernStrings)
        IN  /\ k >= 0
            /\ SubSeq(args, k + 1, Len(args)) = ModernStrings
            /\ ~HasLegacy => k = 0
            /\ HasLegacy =>
                  /\ k >= 1
                  /\ Join(SubSeq(args, 1, k), <<" ">>) = version_json.minecraftArguments
                  /\ \A i \in 1..k : \A j \in 1..Len(args[i]) : args[i][j] # " "
            /\ \A i \in 1..Len(args) : args[i] # ObjectArg.value
            /\ \A i \in 1..Len(ret) : ret[i] # "--demo"
            /\ (~HasLegacy /\ ~HasModern) => ret = <<>>

C7_Witness ==
    /\ pc = "done"
    /\ HasLegacy
    /\ Len(Split(version_json.minecraftArguments, " ")) = 3
    /\ HasModern
    /\ Len(version_json.arguments.game) = 5
    /\ Len(args) = 7

(***************************************************************************)
(* build_java_command                                                      *)
(***************************************************************************)

\* A JSON number n; JSON null is None.
IntValue(n) == [int |-> n]

\* Python's truth value of a memory value: None and 0 are false.
Truthy(v) == v # None /\ v.int # 0

DefaultMemory == 4096

\* options.get('memory', 4096)
memory_of(opts) == IF "memory" \in DOMAIN opts THEN opts.memory ELSE IntValue(DefaultMemory)

\* options.get('use_system_memory', False)
use_system_memory_of(opts) ==
    IF "use_system_memory" \in DOMAIN opts THEN opts.use_system_memory ELSE FALSE

\* The memory settings without the use_system_memory test.
memory_settings_always(opts) ==
    IF Truthy(memory_of(opts))
    THEN << <<"-Xmx">> \o IntToStr(memory_of(opts).int) \o <<"M">>,
            <<"-Xms">> \o IntToStr(memory_of(opts).int) \o <<"M">> >>
    ELSE <<>>

\* What `if not use_system_memory and memory:` extends the command by.
memory_settings(opts) ==
    IF ~use_system_memory_of(opts) /\ Truthy(memory_of(opts))
    THEN << <<"-Xmx">> \o IntToStr(memory_of(opts).int) \o <<"M">>,
            <<"-Xms">> \o IntToStr(memory_of(opts).int) \o <<"M">> >>
    ELSE <<>>

version_dir(vn) == PathJoin(PathJoin(mc_path, <<"versions">>), vn)

natives_dir(vn) == PathJoin(version_dir(vn), <<"natives-windows-x86_64">>)

common_args(vn) ==
    << <<"-Dfile.encoding=GB18030">>,
       <<"-Dsun.stdout.encoding=GB18030">>,
       <<"-Dsun.stderr.encoding=GB18030">>,
       <<"-Djava.rmi.server.useCodebaseOnly=true">>,
       <<"-Dcom.sun.jndi.rmi.object.trustURLCodebase=false">>,
       <<"-Dcom.sun.jndi.cosnaming.object.trustURLCodebase=false">>,
       <<"-Dlog4j2.formatMsgNoLookups=true">>,
       <<"-Dlog4j.configurationFile=">> \o PathJoin(version_dir(vn), <<"log4j2", ".", "xml">>),
       <<"-Dminecraft.client.jar=">> \o PathJoin(version_dir(vn), vn \o <<".jar">>),
       <<"-XX:+UnlockExperimentalVMOptions">>,
       <<"-XX:+UseG1GC">>,
       <<"-XX:G1NewSizePercent=20">>,
       <<"-XX:G1ReservePercent=20">>,
       <<"-XX:MaxGCPauseMillis=50">>,
       <<"-XX:G1HeapRegionSize=32m">>,
       <<"-XX:-UseAdaptiveSizePolicy">>,
       <<"-XX:-OmitStackTraceInFastThrow">>,
       <<"-XX:-DontCompileHugeMethods">>,
       <<"-Dfml.ignoreInvalidMinecraftCertificates=true">>,
       <<"-Dfml.ignorePatchDiscrepancies=true">>,
       <<"-XX:HeapDumpPath=MojangTricksIntelDriversForPerformance_javaw.exe_minecraft.exe.heapdump">>,
       <<"-Djava.library.path=">> \o natives_dir(vn),
       <<"-Djna.tmpdir=">> \o natives_dir(vn),
       <<"-Dorg.lwjgl.system.SharedLibraryExtractPath=">> \o natives_dir(vn),
       <<"-Dio.netty.native.workdir=">> \o natives_dir(vn),
       <<"-Dminecraft.launcher.brand=WMML">>,
       <<"-Dminecraft.launcher.version=0.1.26">> >>

build_java_command(vn, main_class, libs, gargs, opts) ==
    <<opts.java_path>> \o memory_settings(opts) \o common_args(vn)
        \o << <<"-cp">>, libs >> \o <<main_class>> \o Split(gargs, " ")

(***************************************************************************)
(* Inputs of the command synthesizer                                       *)
(***************************************************************************)

MainClass == <<"net.minecraft.client.main.Main">>

JavaPaths == {<<"java">>, <<"C:", "\\", "jdk", "\\", "bin", "\\", "javaw.exe">>}

MemoryValues == {None, IntValue(0), IntValue(1024), IntValue(4096)}

OptionsDicts ==
    LET base == {[java_path |-> j] : j \in JavaPaths}
        withMemory == base \cup
            {[k \in DOMAIN o \cup {"memory"} |-> IF k = "memory" THEN m ELSE o[k]] :
                o \in base, m \in MemoryValues}
    IN  withMemory \cup
            {[k \in DOMAIN o \cup {"use_system_memory"} |->
                 IF k = "use_system_memory" THEN u ELSE o[k]] :
                o \in withMemory, u \in BOOLEAN}

\* Classpath strings build_libraries_path returns.
ClasspathStrings == {VersionJarFile, VersionJarFile \o <<os_pathsep>> \o FooJar}

\* Game-argument strings build_game_arguments returns (trimmed): no
\* tokens, two tokens, two spaces between tokens, a tab between tokens, and
\* the launcher's quoted version type.
GameArgStrings ==
    { <<>>,
      <<"--username", " ", "Player123">>,
      <<"--username", " ", " ", "Player123">>,
      <<"--username", "\t", "Player123">>,
      <<"--versionType", " ", "\"WMML", " ", "0.1.26\"">> }

InitCommand ==
    /\ pc = "call"
    /\ options \in OptionsDicts
    /\ libraries \in ClasspathStrings
    /\ game_args \in GameArgStrings
    /\ version_name = VersionId
    /\ machine64 = TRUE /\ files = {} /\ lib = Unused
    /\ version_json = Unused /\ player_name = Unused /\ args = Unused
    /\ ret = Unused /\ raised = FALSE /\ printed = FALSE
    /\ IdleStreams

Call_build_java_command ==
    /\ pc = "call"
    /\ pc' = "done"
    /\ ret' = build_java_command(version_name, MainClass, libraries, game_args, options)
    /\ UNCHANGED <<machine64, files, lib, version_json, version_name, player_name,
                   options, libraries, game_args, args, raised, printed,
                   stream, closed, written, reader, log, java_command, process>>

NextCommand == Call_build_java_command

SpecCommand == InitCommand /\ [][NextCommand]_vars

(***************************************************************************)
(* C8, C9                                                                  *)
(***************************************************************************)

\* The position of the first -cp token of the command.
CpIndex == CHOOSE i \in 1..Len(ret) : ret[i] = <<"-cp">> /\ \A j \in 1..(i - 1) : ret[j] # <<"-cp">>

IsMemoryFlag(tok) == tok # <<>> /\ tok[1] \in {"-Xmx", "-Xms"}

Memory == IF "memory" \in DOMAIN options THEN options.memory ELSE [int |-> 4096]

UseSystemMemory == "use_system_memory" \in DOMAIN options /\ options.use_system_memory

MemoryText ==
    IF Memory = [int |-> 4096] THEN <<"4", "0", "9", "6">>
    ELSE IF Memory = [int |-> 1024] THEN <<"1", "0", "2", "4">>
    ELSE <<"0">>

FlagsAfterExecutable ==
    /\ ret[2] = <<"-Xmx">> \o MemoryText \o <<"M">>
    /\ ret[3] = <<"-Xms">> \o MemoryText \o <<"M">>

NoFlagBeforeCp == \A i \in 1..(CpIndex - 1) : ~IsMemoryFlag(ret[i])

\* C8 as stated: the two memory tokens follow token 0 exactly when
\* useSystemMemory is false and a memory value is present (not null).
C8_FlagsWhenMemoryPresent ==
    pc = "done" =>
        /\ ret[1] = options.java_path
        /\ (~UseSystemMemory /\ Memory # None) => FlagsAfterExecutable
        /\ ~(~UseSystemMemory /\ Memory # None) => NoFlagBeforeCp

\* C8 as amended: token 0 is the executable; -Xmx<value>M then -Xms<value>M
\* follow it exactly when useSystemMemory is false and the memory value
\* (4096 when the options carry none) is neither null nor 0; otherwise no
\* -Xmx/-Xms token precedes -cp.
C8_FlagsWhenMemoryNonZero ==
    pc = "done" =>
        /\ ret[1] = options.java_path
        /\ (~UseSystemMemory /\ Memory # None /\ Memory # [int |-> 0])
              => (FlagsAfterExecutable /\ \A i \in 4..(CpIndex - 1) : ~IsMemoryFlag(ret[i]))
        /\ ~(~UseSystemMemory /\ Memory # None /\ Memory # [int |-> 0]) => NoFlagBeforeCp

C8_Witness ==
    /\ pc = "done"
    /\ UseSystemMemory
    /\ Memory = [int |-> 4096]
    /\ NoFlagBeforeCp
    /\ CpIndex = 29

\* s.split(): the maximal runs of non-whitespace characters of s.
WhitespaceSplit(s) ==
    LET spaced == [i \in 1..Len(s) |-> IF s[i] \in Whitespace THEN " " ELSE s[i]]
    IN  SelectSeq(Split(spaced, " "), LAMBDA tok : tok # <<>>)

\* C9: the command ends with -cp, the classpath as one token, the entry
\* class as one token, then the whitespace-split tokens of the
\* game-argument string and nothing else: no empty token is appended.
C9_WhitespaceSplitTail ==
    pc = "done" =>
        /\ SubSeq(ret, CpIndex, Len(ret)) =
              << <<"-cp">>, libraries, MainClass >> \o WhitespaceSplit(game_args)
        /\ \A i \in (CpIndex + 3)..Len(ret) : ret[i] # <<>>
        /\ game_args = <<>> => ret[Len(ret)] = MainClass

(***************************************************************************)
(* launch_minecraft                                                        *)
(*                                                                         *)
(* Path(str(mc_path) + os.sep) drops the separator again, so mc_path is    *)
(* the root as given.  version_json holds what json.load would return for  *)
(* the descriptor file; `files` says whether open() finds it.              *)
(***************************************************************************)

\* The number of lines the child writes, over both streams.
MaxLines == 3

Streams == {"stdout", "stderr"}

\* The lines a child may write.
Lines == {"a\n", "b\n"}

NoProcess == [spawned |-> FALSE]

version_json_path(vn) == PathJoin(version_dir(vn), vn \o <<".json">>)

\* A reader that prints every line bare.
prefix_of_none(s) == <<>>

\* The prefix argument each reader thread is started with.
prefix_of(s) == IF s = "stderr" THEN <<"stderr: ">> ELSE <<>>

\* open() and json.load succeed.
LoadDescriptor ==
    /\ pc = "start"
    /\ version_json_path(version_name) \in files
    /\ "malformed" \notin DOMAIN version_json
    /\ pc' = "loaded"
    /\ UNCHANGED <<machine64, files, lib, version_json, version_name, player_name,
                   options, libraries, game_args, args, ret, raised, printed,
                   stream, closed, written, reader, log, java_command, process>>

\* open() or json.load raises; the except branch prints and re-raises.
LoadDescriptorFails ==
    /\ pc = "start"
    /\ \/ version_json_path(version_name) \notin files
       \/ "malformed" \in DOMAIN version_json
    /\ pc' = "raised"
    /\ raised' = TRUE
    /\ printed' = TRUE
    /\ UNCHANGED <<machine64, files, lib, version_json, version_name, player_name,
                   options, libraries, game_args, args, ret,
                   stream, closed, written, reader, log, java_command, process>>

\* main_class, libraries, game_args and java_command are computed.
BuildCommand ==
    /\ pc = "loaded"
    /\ "mainClass" \in DOMAIN version_json
    /\ libraries' = build_libraries_path(version_json)
    /\ args' = collect_args(version_json)
    /\ game_args' = build_game_arguments(version_name, player_name, version_json)
    /\ java_command' = build_java_command(version_name, version_json.mainClass,
                                          libraries', game_args', options)
    /\ pc' = "built"
    /\ UNCHANGED <<machine64, files, lib, version_json, version_name, player_name,
                   options, ret, raised, printed,
                   stream, closed, written, reader, log, process>>

\* version_json['mainClass'] raises KeyError; the except branch prints and
\* re-raises.
BuildCommandFails ==
    /\ pc = "loaded"
    /\ "mainClass" \notin DOMAIN version_json
    /\ pc' = "raised"
    /\ raised' = TRUE
    /\ printed' = TRUE
    /\ UNCHANGED <<machine64, files, lib, version_json, version_name, player_name,
                   options, libraries, game_args, args, ret,
                   stream, closed, written, reader, log, java_command, process>>

\* subprocess.Popen returns a process with two open pipes.
Spawn ==
    /\ pc = "built"
    /\ process' = [spawned |-> TRUE, argv |-> java_command]
    /\ pc' = "spawned"
    /\ UNCHANGED <<machine64, files, lib, version_json, version_name, player_name,
                   options, libraries, game_args, args, ret, raised, printed,
                   stream, closed, written, reader, log, java_command>>

\* subprocess.Popen raises; the except branch prints and re-raises.
SpawnFails ==
    /\ pc = "built"
    /\ pc' = "raised"
    /\ raised' = TRUE
    /\ printed' = TRUE
    /\ UNCHANGED <<machine64, files, lib, version_json, version_name, player_name,
                   options, libraries, game_args, args, ret,
                   stream, closed, written, reader, log, java_command, process>>

\* threading.Thread(target=print_output, args=(process.stdout, '')).start()
StartStdoutReader ==
    /\ pc = "spawned"
    /\ reader' = [reader EXCEPT !["stdout"] = "running"]
    /\ pc' = "stdout_started"
    /\ UNCHANGED <<machine64, files, lib, version_json, version_name, player_name,
                   options, libraries, game_args, args, ret, raised, printed,
                   stream, closed, written, log, java_command, process>>

\* threading.Thread(target=print_output, args=(process.stderr, 'stderr: ')).start()
StartStderrReader ==
    /\ pc = "stdout_started"
    /\ reader' = [reader EXCEPT !["stderr"] = "running"]
    /\ pc' = "stderr_started"
    /\ UNCHANGED <<machine64, files, lib, version_json, version_name, player_name,
                   options, libraries, game_args, args, ret, raised, printed,
                   stream, closed, written, log, java_command, process>>

\* return process: nothing waits for the child or for the readers.
Return ==
    /\ pc = "stderr_started"
    /\ ret' = process
    /\ pc' = "returned"
    /\ UNCHANGED <<machine64, files, lib, version_json, version_name, player_name,
                   options, libraries, game_args, args, raised, printed,
                   stream, closed, written, reader, log, java_command, process>>

\* The child writes a line to one of its streams.
ChildWrite(s, line) ==
    /\ process.spawned
    /\ ~closed[s]
    /\ Len(written["stdout"]) + Len(written["stderr"]) < MaxLines
    /\ stream' = [stream EXCEPT ![s] = Append(@, line)]
    /\ written' = [written EXCEPT ![s] = Append(@, line)]
    /\ UNCHANGED <<pc, machine64, files, lib, version_json, version_name, player_name,
                   options, libraries, game_args, args, ret, raised, printed,
                   closed, reader, log, java_command, process>>

\* The child closes one of its streams (at the latest when it exits).
ChildClose(s) ==
    /\ process.spawned
    /\ ~closed[s]
    /\ closed' = [closed EXCEPT ![s] = TRUE]
    /\ UNCHANGED <<pc, machine64, files, lib, version_json, version_name, player_name,
                   options, libraries, game_args, args, ret, raised, printed,
                   stream, written, reader, log, java_command, process>>

\* print_output of the thread started on the child's stream s: readline
\* returns a line, which is printed behind the prefix.
ReadLine(s) ==
    /\ reader[s] = "running"
    /\ stream[s] # <<>>
    /\ log' = [log EXCEPT ![s] = Append(@, prefix_of(s) \o <<Head(stream[s])>>)]
    /\ stream' = [stream EXCEPT ![s] = Tail(@)]
    /\ UNCHANGED <<pc, machine64, files, lib, version_json, version_name, player_name,
                   options, libraries, game_args, args, ret, raised, printed,
                   closed, written, reader, java_command, process>>

\* print_output: readline returns '' at end-of-stream and the loop ends.
ReadEof(s) ==
    /\ reader[s] = "running"
    /\ stream[s] = <<>>
    /\ closed[s]
    /\ reader' = [reader EXCEPT ![s] = "done"]
    /\ UNCHANGED <<pc, machine64, files, lib, version_json, version_name, player_name,
                   options, libraries, game_args, args, ret, raised, printed,
                   stream, closed, written, log, java_command, process>>

(***************************************************************************)
(* Inputs of the launch                                                    *)
(***************************************************************************)

VersionJsonFile ==
    <<".minecraft", "/", "versions", "/", "1", ".", "20", ".", "1", "/",
      "1", ".", "20", ".", "1", ".json">>

LaunchDescriptor ==
    [id |-> VersionId,
     mainClass |-> MainClass,
     libraries |-> << [name |-> NameFoo],
                      [name |-> NameBrigadier,
                       rules |-> <<[action |-> "allow", os |-> [name |-> "osx"]]>>] >>,
     minecraftArguments |-> <<"--username", " ">> \o PH("auth_player_name")]

LaunchDescriptors ==
    { LaunchDescriptor,
      [id |-> VersionId, libraries |-> <<>>],
      [malformed |-> TRUE] }

\* The options of the module's __main__ block.
MainOptions == [java_path |-> <<"java">>, memory |-> IntValue(4096), use_system_memory |-> FALSE]

InitLaunch ==
    /\ pc = "start"
    /\ machine64 = TRUE
    /\ files \in SUBSET {VersionJsonFile, FooJar}
    /\ version_json \in LaunchDescriptors
    /\ version_name = VersionId
    /\ player_name = <<"Player123">>
    /\ options = MainOptions
    /\ lib = Unused
    /\ libraries = <<>> /\ game_args = <<>> /\ args = <<>> /\ java_command = <<>>
    /\ ret = NoProcess /\ raised = FALSE /\ printed = FALSE
    /\ process = NoProcess
    /\ stream = [s \in Streams |-> <<>>]
    /\ written = [s \in Streams |-> <<>>]
    /\ closed = [s \in Streams |-> FALSE]
    /\ reader = [s \in Streams |-> "idle"]
    /\ log = [s \in Streams |-> <<>>]

NextLaunch ==
    \/ LoadDescriptor
    \/ LoadDescriptorFails
    \/ BuildCommand
    \/ BuildCommandFails
    \/ Spawn
    \/ SpawnFails
    \/ StartStdoutReader
    \/ StartStderrReader
    \/ Return
    \/ \E s \in Streams : \E line \in Lines : ChildWrite(s, line)
    \/ \E s \in Streams : ChildClose(s)
    \/ \E s \in Streams : ReadLine(s)
    \/ \E s \in Streams : ReadEof(s)

\* The launching thread and each reader thread are scheduled whenever they
\* can run; the child is under no obligation to write or to exit.
SpecLaunch ==
    /\ InitLaunch
    /\ [][NextLaunch]_vars
    /\ WF_vars(StartStdoutReader)
    /\ WF_vars(StartStderrReader)
    /\ WF_vars(Return)
    /\ \A s \in Streams : WF_vars(ReadLine(s) \/ ReadEof(s))

(***************************************************************************)
(* C10                                                                     *)
(***************************************************************************)

\* The lines reader s printed, in print order.
Forwarded(s) == [i \in 1..Len(log[s]) |-> log[s][i][Len(log[s][i])]]

LaunchOrder ==
    /\ process.spawned =>
          /\ pc \notin {"start", "loaded", "built", "raised"}
          /\ VersionJsonFile \in files
          /\ "mainClass" \in DOMAIN version_json
          /\ java_command # <<>>
          /\ process.argv = java_command
    /\ raised <=> pc = "raised"
    /\ pc = "raised" =>
          /\ printed
          /\ ~process.spawned
          /\ ret = NoProcess
          /\ \A s \in Streams : reader[s] = "idle" /\ log[s] = <<>>
    /\ \A s \in Streams : reader[s] # "idle" => process.spawned

ReturnsWithoutWaiting ==
    /\ pc = "stderr_started" => ENABLED Return
    /\ pc = "returned" =>
          /\ ret = process
          /\ process.spawned
          /\ \A s \in Streams : reader[s] # "idle"

ReadersForward ==
    /\ \A s \in Streams :
          /\ Forwarded(s) \o stream[s] = written[s]
          /\ reader[s] = "idle" => Forwarded(s) = <<>>
          /\ reader[s] = "done" => (closed[s] /\ Forwarded(s) = written[s])
    /\ \A i \in 1..Len(log["stdout"]) : Len(log["stdout"][i]) = 1
    /\ \A i \in 1..Len(log["stderr"]) :
          Len(log["stderr"][i]) = 2 /\ log["stderr"][i][1] = "stderr: "

ReadersIndependent ==
    \A s \in Streams :
        (reader[s] = "running" /\ (stream[s] # <<>> \/ closed[s]))
            => ENABLED (ReadLine(s) \/ ReadEof(s))

\* C10: the process is spawned only after the descriptor is loaded and the
\* command built; a failure leaves the call with no reader started; after
\* the spawn the call returns the process without waiting for its exit;
\* each reader prints exactly the lines of its own stream, in order, stderr
\* lines behind the prefix; a reader with input can step whatever the other
\* does; and a reader ends once its own stream is at end-of-stream.
C10_Launch ==
    /\ [](LaunchOrder /\ ReturnsWithoutWaiting /\ ReadersForward /\ ReadersIndependent)
    /\ \A s \in Streams : (process.spawned /\ closed[s]) ~> (reader[s] = "done")

C10_Witness ==
    /\ pc = "returned"
    /\ reader["stdout"] = "done"
    /\ reader["stderr"] = "running"
    /\ ~closed["stderr"]
    /\ Len(written["stdout"]) = 2
    /\ written["stdout"][1] # written["stdout"][2]
    /\ Forwarded("stdout") = written["stdout"]
    /\ log["stderr"] = << <<"stderr: ", "a\n">> >>

=============================================================================
